---- MODULE Spec2Model ----
(***************************************************************************)
(* Model of HusqvarnaCoordinator (coordinator.py): scheduled polls,        *)
(* command requests and shutdown sharing one BLE mower client behind an    *)
(* asyncio.Lock.  One action per await point: an action is the completion  *)
(* of the awaited call together with all the code that runs up to the next *)
(* await (or up to the return of the operation).                           *)
(*                                                                         *)
(* The mower client, the lock and the DataUpdateCoordinator base class are *)
(* external; the client's calls are modelled by their possible outcomes    *)
(* (normal return, a non-OK result, or one of the exception kinds the code *)
(* distinguishes), the state of the link after a failed call being a       *)
(* nondeterministic choice.                                                *)
(***************************************************************************)
EXTENDS Integers, Sequences, FiniteSets, TLC

\* ---------------------------------------------------------------- bounds
\* Number of operations (polls, commands, shutdown) called on the coordinator.
MaxOps == 2
\* Number of distinct values a command operation may return.
MaxRet == 2
\* Largest integer a snapshot handed to an entity adapter may hold.
MaxInt == 2
\* Largest number of keys of a snapshot handed to an entity adapter.
MaxSnapshotKeys == 1

Ops == 1..MaxOps
RetValues == 1..MaxRet

\* ------------------------------------------------------------- constants
\* Keys written by the mandatory reads, in the order of the reads.
MandatoryKeys ==
  <<"battery_level", "is_charging", "mode", "state", "activity", "error",
    "next_start_time">>

\* Keys written from the statistics mapping, in the order of the assignments.
StatKeys ==
  <<"total_running_time", "total_cutting_time", "total_charging_time",
    "total_searching_time", "number_of_collisions",
    "number_of_charging_cycles">>

\* Keys of the mapping returned by mower_statistics(), same order.
StatSourceKeys ==
  <<"totalRunningTime", "totalCuttingTime", "totalChargingTime",
    "totalSearchingTime", "numberOfCollisions", "numberOfChargingCycles">>

\* Exception kinds the coordinator's handlers distinguish: BleakError,
\* TimeoutError and any other Exception.
ExcKinds == {"BleakError", "TimeoutError", "Other"}

RangeOf(s) == {s[i] : i \in 1..Len(s)}

\* ----------------------------------------------------------------- state
VARIABLES
  kind,                   \* kind[t]: "none" | "poll" | "command" | "shutdown"
  pc,                     \* pc[t]: the await the operation is suspended at
  started,                \* number of operations called so far
  holder,                 \* _connection_lock: the operation holding it, 0 if free
  waiters,                \* _connection_lock: FIFO of operations waiting for it
  connected,              \* mower.is_connected()
  shutdown_requested,     \* set by super().async_shutdown()
  local,                  \* local[t]: the local dict `data` of a running poll t
  data,                   \* coordinator.data, the published snapshot
  last_successful_update, \* _last_successful_update (0 is None)
  raised,                 \* raised[t]: exception in flight in operation t
  events,                 \* events[t]: what the running operation t did so far
  last,                   \* what the caller of the operation that completed
                          \* last observed, and what that operation did
  entities,               \* the platforms set up and the entities they added
  adapter                 \* the last evaluation of an entity's state property

vars ==
  <<kind, pc, started, holder, waiters, connected, shutdown_requested, local,
    data, last_successful_update, raised, events, last, entities, adapter>>

\* The empty dict.
EmptyData == [x \in {} |-> 0]

\* data[key] = value
Put(d, key, value) ==
  [x \in DOMAIN d \cup {key} |-> IF x = key THEN value ELSE d[x]]

NoLast ==
  [op |-> 0, kind |-> "none", outcome |-> "none", result |-> 0, ret |-> 0,
   connected |-> FALSE, timestamp |-> 0, events |-> {}]

\* A value of a snapshot as the adapters see it: its Python type and a
\* payload (bool: 0/1, int: the number, str: 0 empty / 1 not empty, datetime:
\* 0 naive / 1 timezone-aware, name: the enum member's code, other: a float).
Value(type, v) == [type |-> type, v |-> v]

None == Value("none", 0)

\* The outcome of an expression that raised instead of giving a value.
Raised == Value("raise", 0)

NoEntities == [setup |-> {}, keys |-> {}]

NoAdapter == [entity |-> "none", key |-> "", value |-> None]

Init ==
  /\ entities = NoEntities
  /\ adapter = NoAdapter
  /\ kind = [t \in Ops |-> "none"]
  /\ pc = [t \in Ops |-> "idle"]
  /\ started = 0
  /\ holder = 0
  /\ waiters = <<>>
  /\ connected = FALSE
  /\ shutdown_requested = FALSE
  /\ local = [t \in Ops |-> EmptyData]
  /\ data = EmptyData
  /\ last_successful_update = 0
  /\ raised = [t \in Ops |-> "none"]
  /\ events = [t \in Ops |-> {}]
  /\ last = NoLast

\* ------------------------------------------------------------ the lock
\* asyncio.Lock.acquire() takes the lock without suspending only when it is
\* free and nobody waits for it.
CanAcquireNoCheck == TRUE

CanAcquire == holder = 0 /\ waiters = <<>>

\* `async with`: the lock is released however the block is left; t is the
\* operation leaving it with outcome out, the result is the new holder.
LockAfterExitLeak(t, out) == IF out = "returned" THEN 0 ELSE t

LockAfterExit(t, out) == 0

\* ------------------------------------------------- pure parts of the code
\* Where an operation suspends first once it holds the lock: the connect
\* step is entered only when the client reports not connected; shutdown
\* disconnects only when the client reports connected.
EnterPcAlwaysConnects(k, conn) ==
  IF k = "shutdown"
    THEN (IF conn THEN "disconnect" ELSE "done")
    ELSE "stale"

EnterPcShutdownSkipsDisconnect(k, conn) ==
  IF k = "shutdown"
    THEN "done"
    ELSE IF conn THEN (IF k = "poll" THEN "read" ELSE "invoke")
         ELSE "stale"

EnterPc(k, conn) ==
  IF k = "shutdown"
    THEN (IF conn THEN "disconnect" ELSE "done")
    ELSE IF conn THEN (IF k = "poll" THEN "read" ELSE "invoke")
         ELSE "stale"

\* _async_find_device: the connect step succeeded only if connect() returned
\* ResponseResult.OK.
ConnectSucceededUnchecked(r) == r \in {"ok", "notok"}

ConnectSucceeded(r) == r = "ok"

\* What _async_find_device raises when its step fails with r: a non-OK
\* connect result, a TimeoutError or a BleakError of connect() become
\* UpdateFailed; everything else propagates.
FindDeviceRaises(step, r) ==
  IF step = "connect" /\ r \in {"notok", "TimeoutError", "BleakError"}
    THEN "UpdateFailed"
    ELSE r

\* The first try block of _async_update_data: BleakError is converted to
\* UpdateFailed, anything else (UpdateFailed included) propagates.
PollConnectExcept(e) == IF e = "BleakError" THEN "UpdateFailed" ELSE e

\* The first try block of _async_update_data notifies the listeners only in
\* its BleakError handler.
PollConnectNotifies(e) == e = "BleakError"

\* The handlers of the second try block of _async_update_data: BleakError and
\* any other Exception both become UpdateFailed.
PollReadExcept(e) == "UpdateFailed"

\* The handlers of async_execute_command log and re-raise.
CommandExceptSwallow(e) == "returned"

CommandExcept(e) == e

\* The `finally` of _async_update_data: disconnect is awaited only if the
\* client reports connected.
PollFinallyDisconnects(conn) == conn

\* The exception that leaves the `finally` of _async_update_data: an
\* exception of disconnect() replaces the one in flight.
PollFinallyRaises(inflight, r) == IF r = "ok" THEN inflight ELSE r

\* The handler of async_shutdown around disconnect(): logged, not raised.
ShutdownExceptPropagates(r) == IF r = "ok" THEN "returned" ELSE r

ShutdownExcept(r) == "returned"

\* The statistics assignments: the six keys are copied in order; a missing
\* key raises KeyError, which the enclosing `except Exception` swallows, so
\* the keys before the first missing one stay in the dict.
StatsPrefix(present) ==
  IF \A i \in 1..Len(StatSourceKeys) : StatSourceKeys[i] \in present
    THEN Len(StatSourceKeys)
    ELSE (CHOOSE i \in 1..Len(StatSourceKeys) :
            /\ StatSourceKeys[i] \notin present
            /\ \A j \in 1..(i - 1) : StatSourceKeys[j] \in present) - 1

AssignStats(d, present, value) ==
  [x \in DOMAIN d \cup {StatKeys[i] : i \in 1..StatsPrefix(present)} |->
     IF x \in DOMAIN d THEN d[x] ELSE value]

\* DataUpdateCoordinator._async_refresh: coordinator.data is replaced by the
\* dict _async_update_data returns; when it raises, data is left alone.
PublishAlways(old, new, out) == IF new = EmptyData THEN old ELSE new

Publish(old, new, out) == IF out = "returned" THEN new ELSE old

\* ------------------------------------------------------- shared fragments
\* events[t] is a set of pairs <<step, outcome>>: the awaited calls operation
\* t made and how each ended, plus <<"waited", k>> (the lock was held by an
\* operation of kind k when t was called), <<"is_connected", "yes"/"no">> (what
\* the client reported when t took the lock) and <<"listeners", "notified">>
\* (t called async_update_listeners).
\* Operation t of kind k leaves its `async with` block with outcome out (the
\* lock is released) and returns or raises to its caller; conn is the state
\* of the link at that moment, d the dict a poll returns, v the value the
\* command operation returned (0: none).  The enclosing action fixes
\* last_successful_update' before it uses Exit.
Exit(t, k, out, conn, evs, d, v) ==
  /\ pc' = [pc EXCEPT ![t] = "done"]
  /\ raised' = [raised EXCEPT ![t] = "none"]
  /\ events' = [events EXCEPT ![t] = {}]
  /\ local' = [local EXCEPT ![t] = EmptyData]
  /\ holder' = LockAfterExit(t, out)
  /\ data' = IF k = "poll" THEN Publish(data, d, out) ELSE data
  /\ last' = [op |-> t, kind |-> k, outcome |-> out,
              result |-> IF out = "returned" THEN v ELSE 0, ret |-> v,
              connected |-> conn, timestamp |-> last_successful_update',
              events |-> events[t] \cup evs]

\* Operation t of kind k has just taken the lock.
Enter(t, k) ==
  IF EnterPc(k, connected) = "done"
    THEN Exit(t, k, "returned", connected, {<<"is_connected", "no">>},
              EmptyData, 0)
    ELSE /\ pc' = [pc EXCEPT ![t] = EnterPc(k, connected)]
         /\ holder' = t
         /\ events' = [events EXCEPT ![t] = @ \cup
                         {<<"is_connected", IF connected THEN "yes" ELSE "no">>}]
         /\ UNCHANGED <<raised, local, data, last>>

\* `async with self._connection_lock` when operation t of kind k is called.
Call(t, k) ==
  /\ started < MaxOps
  /\ UNCHANGED <<entities, adapter>>
  /\ UNCHANGED <<connected, last_successful_update>>
  /\ t = started + 1
  /\ started' = t
  /\ kind' = [kind EXCEPT ![t] = k]
  /\ IF CanAcquire
       THEN Enter(t, k) /\ UNCHANGED waiters
       ELSE /\ pc' = [pc EXCEPT ![t] = "waiting"]
            /\ waiters' = Append(waiters, t)
            /\ events' = [events EXCEPT ![t] =
                            {<<"waited", IF holder = 0 THEN "queue"
                                         ELSE kind[holder]>>}]
            /\ UNCHANGED <<holder, raised, local, data, last>>

\* ---------------------------------------------------------------- actions
\* The schedule (or a refresh request) calls _async_update_data; the base
\* class starts no refresh once shutdown has been requested.
StartPoll(t) ==
  /\ ~shutdown_requested
  /\ Call(t, "poll")
  /\ UNCHANGED shutdown_requested

\* A caller calls async_execute_command.
StartCommand(t) ==
  /\ Call(t, "command")
  /\ UNCHANGED shutdown_requested

\* async_shutdown: super().async_shutdown(), then the lock.
StartShutdown(t) ==
  /\ \A u \in Ops : kind[u] # "shutdown"
  /\ shutdown_requested' = TRUE
  /\ Call(t, "shutdown")

\* The lock is free and t is the first waiter: its acquire() returns.
Acquire(t) ==
  /\ pc[t] = "waiting"
  /\ UNCHANGED <<entities, adapter>>
  /\ UNCHANGED <<kind, started, connected, shutdown_requested,
                 last_successful_update>>
  /\ holder = 0
  /\ waiters # <<>>
  /\ Head(waiters) = t
  /\ waiters' = Tail(waiters)
  /\ Enter(t, kind[t])

\* A failure e of the connect step (already mapped by _async_find_device)
\* reaches the caller's handlers; neither path has a `finally` here.
ConnectStepFails(t, e, conn, evs) ==
  IF kind[t] = "poll"
    THEN Exit(t, "poll", PollConnectExcept(e), conn,
              evs \cup (IF PollConnectNotifies(e)
                         THEN {<<"listeners", "notified">>} ELSE {}),
              EmptyData, 0)
    ELSE Exit(t, "command", CommandExcept(e), conn, evs, EmptyData, 0)

\* _async_find_device: await close_stale_connections_by_address(...)
CloseStale(t) ==
  /\ pc[t] = "stale"
  /\ UNCHANGED <<entities, adapter>>
  /\ UNCHANGED <<kind, started, waiters, connected, shutdown_requested,
                 last_successful_update>>
  /\ \E r \in {"ok"} \cup ExcKinds :
       IF r = "ok"
         THEN /\ pc' = [pc EXCEPT ![t] = "connect"]
              /\ UNCHANGED <<holder, raised, events, local, data, last>>
         ELSE ConnectStepFails(t, FindDeviceRaises("stale", r), connected,
                               {<<"stale", r>>})

\* _async_find_device: await self.mower.connect(device)
Connect(t) ==
  /\ pc[t] = "connect"
  /\ UNCHANGED <<entities, adapter>>
  /\ UNCHANGED <<kind, started, waiters, shutdown_requested,
                 last_successful_update>>
  /\ \E r \in {"ok", "notok"} \cup ExcKinds, conn \in BOOLEAN :
       /\ r = "ok" => conn
       /\ connected' = conn
       /\ IF ConnectSucceeded(r)
            THEN /\ pc' = [pc EXCEPT ![t] =
                             IF kind[t] = "poll" THEN "read" ELSE "invoke"]
                 /\ events' = [events EXCEPT ![t] = @ \cup {<<"connect", r>>}]
                 /\ UNCHANGED <<holder, raised, local, data, last>>
            ELSE ConnectStepFails(t, FindDeviceRaises("connect", r), conn,
                                  {<<"connect", r>>})

\* The `finally` block of _async_update_data is reached with exception e in
\* flight ("none": the try block completed) and d in the local dict.
PollFinally(t, e, conn, evs, d) ==
  IF PollFinallyDisconnects(conn)
    THEN /\ pc' = [pc EXCEPT ![t] = "disconnect"]
         /\ raised' = [raised EXCEPT ![t] = e]
         /\ events' = [events EXCEPT ![t] = @ \cup evs]
         /\ local' = [local EXCEPT ![t] = d]
         /\ UNCHANGED <<holder, data, last>>
    ELSE Exit(t, "poll", IF e = "none" THEN "returned" ELSE e, conn, evs, d, 0)

\* One of the seven mandatory reads of _async_update_data completes.
Read(t) ==
  /\ pc[t] = "read"
  /\ UNCHANGED <<entities, adapter>>
  /\ UNCHANGED <<kind, started, waiters, shutdown_requested,
                 last_successful_update>>
  /\ LET i == Cardinality(DOMAIN local[t]) + 1
     IN \E r \in {"ok"} \cup ExcKinds :
          IF r = "ok"
            THEN /\ local' = [local EXCEPT ![t] = Put(@, MandatoryKeys[i], t)]
                 /\ pc' = [pc EXCEPT ![t] =
                             IF i = Len(MandatoryKeys) THEN "stats" ELSE "read"]
                 /\ UNCHANGED <<holder, raised, events, data, last, connected>>
            ELSE \E conn \in {connected, FALSE} :
                   /\ connected' = conn
                   /\ PollFinally(t, PollReadExcept(r), conn,
                                  {<<"read", r>>, <<"listeners", "notified">>},
                                  local[t])

\* await self.mower.mower_statistics() completes: it raises, returns None or
\* returns a mapping; then the timestamp is recorded and `finally` is reached.
ReadStatistics(t) ==
  /\ pc[t] = "stats"
  /\ UNCHANGED <<entities, adapter>>
  /\ last_successful_update' = t
  /\ UNCHANGED <<kind, started, waiters, shutdown_requested>>
  /\ \E r \in {"mapping", "null"} \cup ExcKinds,
        present \in SUBSET RangeOf(StatSourceKeys),
        conn \in {connected, FALSE} :
       /\ r # "mapping" => present = {}
       /\ r \notin ExcKinds => conn = connected
       /\ connected' = conn
       /\ PollFinally(t, "none", conn, {<<"stats", r>>},
                      IF r = "mapping"
                        THEN AssignStats(local[t], present, t)
                        ELSE local[t])

\* await self.mower.disconnect() completes, in the poll's `finally` or in
\* async_shutdown.
Disconnect(t) ==
  /\ pc[t] = "disconnect"
  /\ UNCHANGED <<entities, adapter>>
  /\ UNCHANGED <<kind, started, waiters, shutdown_requested,
                 last_successful_update>>
  /\ \E r \in {"ok"} \cup ExcKinds, conn \in BOOLEAN :
       /\ r = "ok" => ~conn
       /\ connected' = conn
       /\ LET evs == {<<"disconnect", r>>}
          IN IF kind[t] = "poll"
               THEN LET e == PollFinallyRaises(raised[t], r)
                    IN Exit(t, "poll", IF e = "none" THEN "returned" ELSE e,
                            conn, evs, local[t], 0)
               ELSE Exit(t, "shutdown", ShutdownExcept(r), conn, evs,
                         EmptyData, 0)

\* await command_func(*args, **kwargs) completes.
Invoke(t) ==
  /\ pc[t] = "invoke"
  /\ UNCHANGED <<entities, adapter>>
  /\ UNCHANGED <<kind, started, waiters, shutdown_requested,
                 last_successful_update>>
  /\ \/ \E v \in RetValues :
          /\ Exit(t, "command", "returned", connected, {<<"invoke", "ok">>},
                  EmptyData, v)
          /\ UNCHANGED connected
     \/ \E e \in ExcKinds, conn \in {connected, FALSE} :
          /\ connected' = conn
          /\ Exit(t, "command", CommandExcept(e), conn, {<<"invoke", e>>},
                  EmptyData, 0)

\* Completion of the awaited call of the operation that can run.
Progress ==
  \E t \in Ops :
    \/ Acquire(t)
    \/ CloseStale(t)
    \/ Connect(t)
    \/ Read(t)
    \/ ReadStatistics(t)
    \/ Disconnect(t)
    \/ Invoke(t)

Next ==
  \/ \E t \in Ops : StartPoll(t)
  \/ \E t \in Ops : StartCommand(t)
  \/ \E t \in Ops : StartShutdown(t)
  \/ \E t \in Ops : Acquire(t)
  \/ \E t \in Ops : CloseStale(t)
  \/ \E t \in Ops : Connect(t)
  \/ \E t \in Ops : Read(t)
  \/ \E t \in Ops : ReadStatistics(t)
  \/ \E t \in Ops : Disconnect(t)
  \/ \E t \in Ops : Invoke(t)

Spec == Init /\ [][Next]_vars

\* Every BLE call eventually returns or raises, and the event loop resumes
\* the task whose awaited call has completed.
FairSpec == Spec /\ WF_vars(Progress)

\* ------------------------------------------------------- entity adapters
\* Keys of the sensor DESCRIPTIONS and of the binary sensor DESCRIPTIONS.
SensorKeys ==
  {"battery_level", "mode", "state", "activity", "error", "next_start_time"}
    \cup RangeOf(StatKeys)

BinarySensorKeys == {"is_charging"}

\* Keys that the sensor looks up in an enum of the mower library.
EnumKeys == {"mode", "state", "activity", "error"}

\* The codes that are members of those enums; other integers are not.
EnumCodes == {0, 1}

\* The values a snapshot handed to an adapter may hold.
TypedValues ==
  {Value("bool", b) : b \in 0..1} \cup {Value("int", n) : n \in 0..MaxInt}
    \cup {Value("str", n) : n \in 0..1} \cup {Value("datetime", n) : n \in 0..1}
    \cup {None, Value("other", 0)}

\* The snapshots handed to an adapter.
Snapshots ==
  UNION {[S -> TypedValues] :
           S \in {T \in SUBSET (SensorKeys \cup BinarySensorKeys) :
                    Cardinality(T) <= MaxSnapshotKeys}}

\* self.coordinator.data[key]: KeyError when the key is missing.
Lookup(d, key) == IF key \in DOMAIN d THEN d[key] ELSE Raised

\* Enum(value).name: the member with that code, ValueError when there is none
\* (True and False are equal to 1 and 0).
EnumName(value) ==
  IF value.type \in {"int", "bool"} /\ value.v \in EnumCodes
    THEN Value("name", value.v)
    ELSE Raised

\* The next_start_time branch of native_value: a naive datetime is converted
\* to the local timezone, anything that is not a datetime becomes None.
LocalStartTime(value) ==
  IF value.type = "datetime" THEN Value("datetime", 1) ELSE None

\* The try block of HusqvarnaAutomowerBleSensor.native_value.
NativeValueTry(key, d) ==
  IF key \notin DOMAIN d
    THEN None
    ELSE LET value == Lookup(d, key)
         IN IF key \in EnumKeys THEN EnumName(value)
            ELSE IF key = "next_start_time" /\ value # None
              THEN LocalStartTime(value)
            ELSE value

\* native_value without the membership test and without the handler.
NativeValueUnguarded(key, d) ==
  LET value == Lookup(d, key)
  IN IF value = Raised THEN Raised
     ELSE IF key \in EnumKeys THEN EnumName(value)
     ELSE IF key = "next_start_time" /\ value # None
       THEN LocalStartTime(value)
     ELSE value

\* HusqvarnaAutomowerBleSensor.native_value: `except Exception` logs and
\* returns None.
NativeValue(key, d) ==
  IF NativeValueTry(key, d) = Raised THEN None ELSE NativeValueTry(key, d)

\* bool(value) of an int or a str.
Truthy(value) == Value("bool", IF value.v = 0 THEN 0 ELSE 1)

\* HusqvarnaAutomowerBleBinarySensor.is_on; nothing in its try block raises
\* for the values of a snapshot.
IsOn(key, d) ==
  IF key \notin DOMAIN d
    THEN None
    ELSE LET value == Lookup(d, key)
         IN IF value.type = "bool" THEN value
            ELSE IF value.type \in {"int", "str"} THEN Truthy(value)
            ELSE None

\* The platform reads the state of the sensor entity of some key.
ReadNativeValue ==
  /\ \E key \in SensorKeys :
       adapter' = [entity |-> "sensor", key |-> key,
                   value |-> NativeValue(key, data)]
  /\ UNCHANGED <<kind, pc, started, holder, waiters, connected,
                 shutdown_requested, local, data, last_successful_update,
                 raised, events, last, entities>>

\* The platform reads the state of the binary sensor entity.
ReadIsOn ==
  /\ \E key \in BinarySensorKeys :
       adapter' = [entity |-> "binary_sensor", key |-> key,
                   value |-> IsOn(key, data)]
  /\ UNCHANGED <<kind, pc, started, holder, waiters, connected,
                 shutdown_requested, local, data, last_successful_update,
                 raised, events, last, entities>>

\* The adapters applied to every snapshot of the bounded input set.
AdapterInit ==
  /\ entities = NoEntities
  /\ adapter = NoAdapter
  /\ kind = [t \in Ops |-> "none"]
  /\ pc = [t \in Ops |-> "idle"]
  /\ started = 0
  /\ holder = 0
  /\ waiters = <<>>
  /\ connected = FALSE
  /\ shutdown_requested = FALSE
  /\ local = [t \in Ops |-> EmptyData]
  /\ data \in Snapshots
  /\ last_successful_update = 0
  /\ raised = [t \in Ops |-> "none"]
  /\ events = [t \in Ops |-> {}]
  /\ last = NoLast

AdapterNext ==
  \/ ReadNativeValue
  \/ ReadIsOn

AdapterSpec == AdapterInit /\ [][AdapterNext]_vars

\* async_setup_entry of a platform: one entity per description whose key is
\* in coordinator.data at that moment.  coordinator.data is a mapping only
\* once a poll has returned, and a platform is set up once.
SetupEntry(platform, keys) ==
  /\ platform \notin entities.setup
  /\ data # EmptyData
  /\ entities' =
       [setup |-> entities.setup \cup {platform},
        keys |-> entities.keys \cup
                   {<<platform, key>> : key \in keys \cap DOMAIN data}]
  /\ UNCHANGED <<kind, pc, started, holder, waiters, connected,
                 shutdown_requested, local, data, last_successful_update,
                 raised, events, last, adapter>>

SetupSensorEntry == SetupEntry("sensor", SensorKeys)

SetupBinarySensorEntry == SetupEntry("binary_sensor", BinarySensorKeys)

\* The coordinator together with the set-up of the two entity platforms.
PlatformNext ==
  \/ Next
  \/ SetupSensorEntry
  \/ SetupBinarySensorEntry

PlatformSpec == Init /\ [][PlatformNext]_vars

\* ---------------------------------------------------------------- claims
\* Operation t is inside its lock-guarded section, suspended at a BLE call.
InSection(t) ==
  pc[t] \in {"stale", "connect", "read", "stats", "disconnect", "invoke"}

\* The calls in e of the given step that ended in one of the outcomes rs.
Ended(e, step, rs) == \E x \in e : x[1] = step /\ x[2] \in rs

\* The snapshot a poll t publishes when only the mandatory reads gave data.
MandatoryOnly(t) == [k \in RangeOf(MandatoryKeys) |-> t]

\* C1: at most one operation is inside its lock-guarded section at any
\* instant, and that operation is the holder of the lock: every connect,
\* read, command invocation and disconnect is issued by the lock holder, so a
\* command never is at its invocation while a poll is still in its section.
C1_MutualExclusion ==
  /\ \A t \in Ops : InSection(t) => holder = t
  /\ \A t, u \in Ops : InSection(t) /\ InSection(u) => t = u
  /\ \A t \in Ops : pc[t] = "waiting" <=> t \in RangeOf(waiters)

\* C1 witness: a command that was called while a poll held the lock is at its
\* invocation, after that poll went through its disconnect step and returned.
C1_Witness ==
  \E c \in Ops :
    /\ kind[c] = "command"
    /\ pc[c] = "invoke"
    /\ <<"waited", "poll">> \in events[c]
    /\ last.kind = "poll"
    /\ Ended(last.events, "disconnect", {"ok"})

\* C2: whenever a poll has released the lock, the client reported
\* disconnected at that moment.
C2_PollReleasesDisconnected == last.kind = "poll" => ~last.connected

\* C3: whenever a command has released the lock, the client reported
\* disconnected at that moment.
C3_CommandReleasesDisconnected == last.kind = "command" => ~last.connected

\* C4: a poll in which connect() timed out, raised a transport error or
\* returned a non-OK result, or in which a mandatory read raised, ends by
\* raising UpdateFailed and publishes nothing of what it read.
C4_FailedPollRaisesUpdateFailed ==
  ( /\ last.kind = "poll"
    /\ \/ Ended(last.events, "connect", {"notok", "TimeoutError", "BleakError"})
       \/ Ended(last.events, "read", ExcKinds) )
  => /\ last.outcome = "UpdateFailed"
     /\ \A k \in DOMAIN data : data[k] # last.op

\* C5: a poll whose seven mandatory reads succeeded and whose statistics read
\* raised returns normally; the published snapshot is exactly the seven
\* mandatory keys with this poll's values, the timestamp is this poll's and
\* the client is disconnected.
C5_StatisticsFailureTolerated ==
  (last.kind = "poll" /\ Ended(last.events, "stats", ExcKinds))
  => /\ last.outcome = "returned"
     /\ data = MandatoryOnly(last.op)
     /\ last.timestamp = last.op
     /\ ~last.connected

\* C6: a command whose connect step failed or whose operation raised raises
\* to its caller and returns no result; a command whose operation returned
\* returns that value.
C6_CommandFailuresPropagate ==
  last.kind = "command" =>
    /\ ( \/ Ended(last.events, "stale", ExcKinds)
         \/ Ended(last.events, "connect", {"notok"} \cup ExcKinds)
         \/ Ended(last.events, "invoke", ExcKinds) )
       => (last.outcome \in {"UpdateFailed"} \cup ExcKinds /\ last.result = 0)
    /\ Ended(last.events, "invoke", ExcKinds) =>
         <<"invoke", last.outcome>> \in last.events
    /\ Ended(last.events, "invoke", {"ok"})
       => /\ last.outcome = "returned"
          /\ last.ret \in RetValues
          /\ last.result = last.ret

\* C6 witness: a command whose operation raised a transport error has raised
\* it to its caller.
C6_Witness ==
  /\ last.kind = "command"
  /\ <<"invoke", "BleakError">> \in last.events
  /\ last.outcome = "BleakError"

\* C7 as stated: shutdown completes only once no poll is in (or queued for)
\* its section, and the client reports disconnected when it completes.
C7_ShutdownDisconnected ==
  /\ \A s, p \in Ops :
       (kind[s] = "shutdown" /\ pc[s] = "done" /\ kind[p] = "poll")
       => pc[p] = "done"
  /\ last.kind = "shutdown" => ~last.connected

\* C7 amended: shutdown completes only once no poll is in (or queued for)
\* its section, and the client reports disconnected when it completes unless
\* shutdown's own disconnect call raised.
C7_ShutdownBestEffort ==
  /\ \A s, p \in Ops :
       (kind[s] = "shutdown" /\ pc[s] = "done" /\ kind[p] = "poll")
       => pc[p] = "done"
  /\ last.kind = "shutdown" =>
       (~last.connected \/ Ended(last.events, "disconnect", ExcKinds))

\* C7 witness: a shutdown called while a poll held the lock has completed
\* after that poll, having found the link up and closed it.
C7_Witness ==
  /\ last.kind = "shutdown"
  /\ <<"waited", "poll">> \in last.events
  /\ <<"disconnect", "ok">> \in last.events
  /\ ~last.connected

\* C8: once shutdown has completed no operation is inside a lock-guarded
\* section (connecting, reading or invoking) and the client is disconnected.
C8_ShutdownTerminal ==
  (\E s \in Ops : kind[s] = "shutdown" /\ pc[s] = "done")
  => /\ \A t \in Ops : ~InSection(t)
     /\ ~connected

\* C9: every operation that has been called (holding the lock or queued for
\* it) eventually completes, so the lock is always released again.
C9_AlwaysReturnsToIdle ==
  \A t \in Ops : (pc[t] \notin {"idle", "done"}) ~> (pc[t] = "done")

\* C9 witness: an operation that had to wait for the lock is inside its
\* section after an operation that failed at its disconnect step.
C9_Witness ==
  \E t \in Ops :
    /\ InSection(t)
    /\ \E x \in events[t] : x[1] = "waited"
    /\ Ended(last.events, "disconnect", ExcKinds)
    /\ last.outcome \in ExcKinds

\* C10: the published snapshot is empty or holds all seven mandatory keys
\* with values of one single completed poll, and it changes only in the step
\* in which a poll returns normally.
C10_SnapshotIntact ==
  (data = EmptyData \/
     /\ RangeOf(MandatoryKeys) \subseteq DOMAIN data
     /\ \E p \in Ops :
          /\ kind[p] = "poll"
          /\ pc[p] = "done"
          /\ \A k \in DOMAIN data : data[k] = p)

C10_SnapshotNeverPartial ==
  /\ []C10_SnapshotIntact
  /\ [][data' # data =>
          /\ last'.kind = "poll"
          /\ last'.outcome = "returned"
          /\ pc[last'.op] # "done"
          /\ \A k \in DOMAIN data' : data'[k] = last'.op]_vars

\* C10 witness: a poll is in the middle of its mandatory reads while the
\* snapshot of an earlier poll is published.
C10_Witness ==
  \E t \in Ops :
    /\ pc[t] = "read"
    /\ Cardinality(DOMAIN local[t]) \in 1..(Len(MandatoryKeys) - 1)
    /\ data # EmptyData
    /\ \A k \in DOMAIN data : data[k] # t

\* C11: a poll in which connect() raised a timeout or a transport error has
\* called async_update_listeners and raised UpdateFailed.
C11_ConnectFailureNotifies ==
  (last.kind = "poll" /\
     Ended(last.events, "connect", {"TimeoutError", "BleakError"}))
  => /\ <<"listeners", "notified">> \in last.events
     /\ last.outcome = "UpdateFailed"

\* C12: a poll never ends with an exception other than UpdateFailed, and a
\* poll that raises publishes nothing of what it read.
C12_OnlyUpdateFailedEscapes ==
  last.kind = "poll" =>
    /\ last.outcome \in {"returned", "UpdateFailed"}
    /\ last.outcome # "returned" => \A k \in DOMAIN data : data[k] # last.op

\* The operation whose history is e ran (at least began) the connect step.
RanConnectStep(e) == \E x \in e : x[1] \in {"stale", "connect"}

\* C14: a poll or command is in the connect step only if the client reported
\* not connected when it took the lock, and the client is not connected while
\* the step runs; a finished poll or command ran the connect step if and only
\* if the client reported not connected when it took the lock, and one that
\* found the client connected went straight to its reads or invocation.
C14_ConnectIffNotConnected ==
  /\ \A t \in Ops :
       pc[t] \in {"stale", "connect"} =>
         (<<"is_connected", "no">> \in events[t] /\ ~connected)
  /\ \A t \in Ops :
       (pc[t] \in {"read", "stats", "disconnect", "invoke"} /\
          kind[t] # "shutdown") =>
         (<<"is_connected", "yes">> \in events[t] <=>
            ~RanConnectStep(events[t]))
  /\ last.kind \in {"poll", "command"} =>
       /\ <<"is_connected", "no">> \in last.events
            <=> RanConnectStep(last.events)
       /\ <<"is_connected", "yes">> \in last.events
            <=> ~RanConnectStep(last.events)

\* C14 witness: a poll that found the client connected has returned its
\* snapshot without any connect step.
C14_Witness ==
  /\ last.kind = "poll"
  /\ <<"is_connected", "yes">> \in last.events
  /\ last.outcome = "returned"
  /\ data = MandatoryOnly(last.op)

\* C15: a finished poll has recorded the update timestamp if and only if it
\* has replaced the published snapshot, i.e. if and only if it returned.
C15_TimestampWithSnapshot ==
  last.kind = "poll" =>
    /\ last.timestamp = last.op <=> last.outcome = "returned"
    /\ last.outcome = "returned" <=>
         (data # EmptyData /\ \A k \in DOMAIN data : data[k] = last.op)
    /\ (\E x \in last.events : x[1] = "stats") => last.outcome = "returned"

\* C16: a finished shutdown has returned normally and released the lock, also
\* when its disconnect call raised; it called disconnect if and only if the
\* client reported connected when it took the lock.
C16_ShutdownNeverFails ==
  last.kind = "shutdown" =>
    /\ last.outcome = "returned"
    /\ holder # last.op
    /\ pc[last.op] = "done"
    /\ <<"is_connected", "no">> \in last.events
         <=> ~(\E x \in last.events : x[1] = "disconnect")

\* C16 witness: a shutdown whose disconnect call raised has returned normally.
C16_Witness ==
  /\ last.kind = "shutdown"
  /\ Ended(last.events, "disconnect", ExcKinds)
  /\ last.outcome = "returned"
  /\ holder = 0

\* C17: the published snapshot holds all six statistics keys or none of them.
C17_StatisticsAllOrNothing ==
  \/ DOMAIN data \cap RangeOf(StatKeys) = {}
  \/ RangeOf(StatKeys) \subseteq DOMAIN data

\* C18: a command is at its invocation only while the client is connected,
\* having found it connected or having got OK from its own connect; a finished
\* command invoked the operation at most once, and not at all when its connect
\* step raised or returned a non-OK result.
C18_InvokeOnlyConnected ==
  /\ \A t \in Ops :
       pc[t] = "invoke" =>
         /\ connected
         /\ \/ <<"is_connected", "yes">> \in events[t]
            \/ <<"connect", "ok">> \in events[t]
         /\ ~Ended(events[t], "connect", {"notok"} \cup ExcKinds)
  /\ last.kind = "command" =>
       /\ Cardinality({x \in last.events : x[1] = "invoke"}) <= 1
       /\ (\E x \in last.events : x[1] = "invoke") =>
            \/ <<"is_connected", "yes">> \in last.events
            \/ <<"connect", "ok">> \in last.events
       /\ ( \/ Ended(last.events, "stale", ExcKinds)
            \/ Ended(last.events, "connect", {"notok"} \cup ExcKinds) )
          => ~(\E x \in last.events : x[1] = "invoke")

\* C18 witness: a command whose own connect returned OK has invoked the
\* operation and returned its value.
C18_Witness ==
  /\ last.kind = "command"
  /\ <<"connect", "ok">> \in last.events
  /\ <<"invoke", "ok">> \in last.events
  /\ last.result \in RetValues

\* C13: the state property of an adapter never raises; it is None whenever
\* the snapshot lacks the adapter's key, and is_on is the snapshot's value
\* whenever that value is a boolean.
C13_MissingKeyIsUnavailable ==
  adapter.entity # "none" =>
    /\ adapter.value # Raised
    /\ adapter.key \notin DOMAIN data => adapter.value = None
    /\ ( /\ adapter.entity = "binary_sensor"
         /\ adapter.key \in DOMAIN data
         /\ data[adapter.key].type = "bool" )
       => adapter.value = data[adapter.key]

\* C13 witness: a sensor whose key is missing from a non-empty snapshot has
\* been read and is None.
C13_Witness ==
  /\ adapter.entity = "sensor"
  /\ data # EmptyData
  /\ adapter.key \notin DOMAIN data
  /\ adapter.value = None

\* C19: once a platform is set up, every key of the published snapshot that
\* has a description of that platform has an entity.
C19_EveryPublishedKeyHasEntity ==
  /\ "sensor" \in entities.setup =>
       \A key \in SensorKeys \cap DOMAIN data :
         <<"sensor", key>> \in entities.keys
  /\ "binary_sensor" \in entities.setup =>
       \A key \in BinarySensorKeys \cap DOMAIN data :
         <<"binary_sensor", key>> \in entities.keys

====
